---- MODULE Spec2Model ----
(***************************************************************************)
(* Auto-capture flow of SnapEyes' CaptureScreen (CaptureScreen.tsx): the   *)
(* periodic sampling timer, the single-flight detection call, the tracking *)
(* state (idle / tracking / locked) with its steadiness timer, the         *)
(* countdown with its two timeouts, the preview zoom and the enable /      *)
(* disable toggle.                                                         *)
(*                                                                         *)
(* One CaptureScreen instance is modelled from its mount to its unmount    *)
(* and the callbacks that outlive it.  A reaction is a handler or callback *)
(* together with the re-render it causes and the effects whose             *)
(* dependencies changed (React runs an effect's cleanup and body after the *)
(* render that changed a dependency); reactions are atomic, as in the      *)
(* single JavaScript thread.  Time is kept as the remaining delay of every *)
(* pending timer, in milliseconds, and advances in steps of Quantum.       *)
(***************************************************************************)
EXTENDS Integers, Sequences, FiniteSets, TLC

VARIABLES
    mounted,              \* the CaptureScreen instance is mounted
    camera,               \* "acquiring" | "stream" | "ready"  (stream / cameraReady)
    autoCaptureEnabled,   \* useState(false)
    detectionStatus,      \* useState<DetectionStatus>('idle')
    zoom,                 \* useState(1), an exact rational <<num, den>>
    countdown,            \* useState<number | null>(null)
    analysisInterval,     \* pending setInterval: set of remaining delays (empty = none)
    steadyTimeout,        \* pending steadiness setTimeout: set of remaining delays
    countdownTimeouts,    \* [t1, t2]: pending countdown setTimeouts
    countdownInProgress,  \* useRef(false)
    isAnalyzing,          \* isAnalyzingRef
    calls,                \* findEyeInFrame calls in flight: the detectionStatus each closure captured
    audioContext,         \* audioContextRef holds a context
    audioSupported,       \* the browser can construct an AudioContext
    log,                  \* observable events of the latest countdown sequence, after a "start"
                          \* entry that tells (1), until the guard is cleared by anything but t2,
                          \* whether the sequence before it was cancelled
    cancelledBy,          \* what interrupted the latest countdown sequence, "none" if nothing did
    last,                 \* the reaction that led to this state, with the state it started from
    statusAge,            \* ms since detectionStatus became tracking or locked (0 while idle)
    steadyAge,            \* ms since the pending steadiness timer was started (capped)
    steadyFailed,         \* a failed outcome was applied since the pending steadiness timer was started
    enteredFrom,          \* the detectionStatus that the current one replaced
    sequences             \* countdown sequences started since detectionStatus last changed (capped)

vars == <<mounted, camera, autoCaptureEnabled, detectionStatus, zoom, countdown,
          analysisInterval, steadyTimeout, countdownTimeouts, countdownInProgress,
          isAnalyzing, calls, audioContext, audioSupported, log, cancelledBy, last,
          statusAge, steadyAge, steadyFailed, enteredFrom, sequences>>

----------------------------------------------------------------------------
\* Program constants

AnalysisPeriodMs == 750
SteadyMs == 500
CountdownStepMs == 1000
CaptureDelayMs == 2000
targetBoxWidth == 40          \* 0.40, in hundredths of the frame width
MinZoom == 1
MaxZoom == 4
SmoothNum == 1                \* 0.2 = SmoothNum / SmoothDen
SmoothDen == 5
ToneA == 440
ToneADurationMs == 100
ToneB == 880
ToneBDurationMs == 200
CountdownNull == 0            \* the null of useState<number | null>
CountdownFirst == 2
CountdownSecond == 1

\* Bounds of the model

MaxZoomSteps == 2             \* zoom values are followed up to SmoothDen^MaxZoomSteps in the denominator
BoxWidths == {0, 1, 10, 40, 80}   \* widths (hundredths) of the boxes the detection service returns
ZoomWidths == 0..100          \* box widths (hundredths) of the zoom-only specification
ZoomStarts == {<<k, 4>> : k \in 4..16}   \* its starting zoom values, quarters within [1, 4]

----------------------------------------------------------------------------
\* Arithmetic

RECURSIVE GCD(_, _)
GCD(a, b) == IF b = 0 THEN a ELSE GCD(b, a % b)

RECURSIVE Pow(_, _)
Pow(b, e) == IF e = 0 THEN 1 ELSE b * Pow(b, e - 1)

Rat(n, d) == LET g == GCD(n, d) IN <<n \div g, d \div g>>

RatLess(a, b) == a[1] * b[2] < b[1] * a[2]

RatMax(a, b) == IF RatLess(a, b) THEN b ELSE a

RatMin(a, b) == IF RatLess(a, b) THEN a ELSE b

ZoomOne == Rat(MinZoom, 1)

\* variant: no upper clamp
newZoom_NoUpperClamp(boxWidth) ==
    IF boxWidth = 0 THEN Rat(MaxZoom, 1)
    ELSE IF boxWidth < 0 THEN Rat(MinZoom, 1)
    ELSE RatMax(Rat(MinZoom, 1), Rat(targetBoxWidth, boxWidth))

\* variant: the two bounds are swapped, Math.max(Math.min(1, q), 4)
newZoom_SwappedBounds(boxWidth) == Rat(MaxZoom, 1)

\* Math.min(Math.max(1, targetBoxWidth / boxWidthNormalized), 4);
\* a division by zero is Infinity, a negative quotient is below 1
newZoom(boxWidth) ==
    IF boxWidth = 0 THEN Rat(MaxZoom, 1)
    ELSE IF boxWidth < 0 THEN Rat(MinZoom, 1)
    ELSE RatMin(RatMax(Rat(MinZoom, 1), Rat(targetBoxWidth, boxWidth)), Rat(MaxZoom, 1))

\* variant: the sign slip z + (target + z) * 0.2
SmoothZoom_SignSlip(z, target) ==
    Rat(z[1] * target[2] * (SmoothDen + SmoothNum) + target[1] * z[2] * SmoothNum,
        SmoothDen * z[2] * target[2])

\* z => z + (target - z) * 0.2
SmoothZoom(z, target) ==
    Rat(z[1] * target[2] * (SmoothDen - SmoothNum) + target[1] * z[2] * SmoothNum,
        SmoothDen * z[2] * target[2])

ZoomDenCap == Pow(SmoothDen, MaxZoomSteps)

Quantum == GCD(GCD(AnalysisPeriodMs, SteadyMs), GCD(CountdownStepMs, CaptureDelayMs))

AgeCap == CaptureDelayMs + Quantum

SequencesCap == 2             \* countdown sequences are counted up to this many per lock episode

Older(age) == IF age + Quantum > AgeCap THEN AgeCap ELSE age + Quantum

Elapse(timer) == {r - Quantum : r \in timer}

NoTimeouts == [t1 |-> {}, t2 |-> {}]

DetectionStatus == {"idle", "tracking", "locked"}

----------------------------------------------------------------------------
\* The component's state as one value, so that handlers compose

Cur ==
    [mounted |-> mounted, camera |-> camera, autoCaptureEnabled |-> autoCaptureEnabled,
     detectionStatus |-> detectionStatus, zoom |-> zoom, countdown |-> countdown,
     analysisInterval |-> analysisInterval, steadyTimeout |-> steadyTimeout,
     countdownTimeouts |-> countdownTimeouts, countdownInProgress |-> countdownInProgress,
     isAnalyzing |-> isAnalyzing, calls |-> calls, audioContext |-> audioContext,
     log |-> log]

cameraReady(s) == s.camera = "ready"

\* setDetectionStatus / setZoom / setCountdown: no effect on an unmounted component
setDetectionStatus(s, v) == IF s.mounted THEN [s EXCEPT !.detectionStatus = v] ELSE s

setZoom(s, v) == IF s.mounted THEN [s EXCEPT !.zoom = v] ELSE s

setCountdown(s, v) ==
    IF s.mounted
    THEN [s EXCEPT !.countdown = v,
                   !.log = IF v = CountdownNull THEN @ ELSE Append(@, <<"show", v, 0>>)]
    ELSE s

initAudioContext(s) ==
    IF ~s.audioContext /\ audioSupported THEN [s EXCEPT !.audioContext = TRUE] ELSE s

\* variant: no check that a context exists
playBeep_NoContextCheck(s, frequency, duration) ==
    [s EXCEPT !.log = @ \o <<<<"tone", frequency, duration>>, <<"beep", frequency, duration>>>>]

\* variant: every tone is requested as the final tone
playBeep_AlwaysToneB(s, frequency, duration) ==
    LET r == [s EXCEPT !.log = Append(@, <<"tone", ToneB, ToneBDurationMs>>)]
    IN  IF ~s.audioContext THEN r
        ELSE [r EXCEPT !.log = Append(@, <<"beep", ToneB, ToneBDurationMs>>)]

\* a call is a tone request ("tone"); with a context an oscillator is started ("beep")
playBeep(s, frequency, duration) ==
    LET r == [s EXCEPT !.log = Append(@, <<"tone", frequency, duration>>)]
    IN  IF ~s.audioContext THEN r
        ELSE [r EXCEPT !.log = Append(@, <<"beep", frequency, duration>>)]

\* variant: the timeouts are forgotten but not cleared
clearCountdownTimeouts_Forgets(s) == s

clearCountdownTimeouts(s) == [s EXCEPT !.countdownTimeouts = NoTimeouts]

\* variant: the steadiness timeout and the countdown display survive the reset
resetAutoCaptureState_Partial(s) ==
    LET a == [clearCountdownTimeouts(s) EXCEPT !.analysisInterval = {},
                                               !.countdownInProgress = FALSE]
    IN  setZoom(setDetectionStatus(a, "idle"), ZoomOne)

resetAutoCaptureState(s) ==
    LET a == [clearCountdownTimeouts(s) EXCEPT !.analysisInterval = {},
                                               !.steadyTimeout = {},
                                               !.countdownInProgress = FALSE]
    IN  setZoom(setCountdown(setDetectionStatus(a, "idle"), CountdownNull), ZoomOne)

handleToggleAutoCapture(s) ==
    LET a == initAudioContext(s)
    IN  IF a.autoCaptureEnabled
        THEN [resetAutoCaptureState(a) EXCEPT !.autoCaptureEnabled = FALSE]
        ELSE [setDetectionStatus(a, "idle") EXCEPT !.autoCaptureEnabled = TRUE]

\* handleCapture: onImageCaptured makes App show the crop screen, which unmounts this one
handleCapture(s) ==
    LET a == initAudioContext(s)
    IN  IF a.mounted /\ cameraReady(a)
        THEN [a EXCEPT !.mounted = FALSE, !.log = Append(@, <<"capture", 0, 0>>)]
        ELSE a

----------------------------------------------------------------------------
\* Effects

\* variant: the interval is created without regard to cameraReady
AnalysisIntervalEffect_IgnoresCamera(s) ==
    [s EXCEPT !.analysisInterval = IF s.autoCaptureEnabled THEN {AnalysisPeriodMs} ELSE {}]

\* useEffect [autoCaptureEnabled, cameraReady, analyzeFrame]: cleanup, then body
AnalysisIntervalEffect(s) ==
    [s EXCEPT !.analysisInterval =
        IF s.autoCaptureEnabled /\ cameraReady(s) THEN {AnalysisPeriodMs} ELSE {}]

\* variant: no branch for a countdown whose lock was lost
CountdownEffect_NoCancelBranch(s) ==
    LET c == clearCountdownTimeouts(s)
    IN  IF c.detectionStatus = "locked" /\ c.autoCaptureEnabled /\ ~c.countdownInProgress
        THEN LET g == [c EXCEPT !.countdownInProgress = TRUE, !.log = <<>>]
                 b == setCountdown(playBeep(g, ToneA, ToneADurationMs), CountdownFirst)
             IN  [b EXCEPT !.countdownTimeouts =
                              [t1 |-> {CountdownStepMs}, t2 |-> {CaptureDelayMs}]]
        ELSE c

\* useEffect [detectionStatus, autoCaptureEnabled, handleCapture, ...]: cleanup, then body
CountdownEffect(s) ==
    LET c == clearCountdownTimeouts(s)
    IN  IF c.detectionStatus = "locked" /\ c.autoCaptureEnabled /\ ~c.countdownInProgress
        THEN LET g == [c EXCEPT !.countdownInProgress = TRUE, !.log = <<>>]
                 b == setCountdown(playBeep(g, ToneA, ToneADurationMs), CountdownFirst)
             IN  [b EXCEPT !.countdownTimeouts =
                              [t1 |-> {CountdownStepMs}, t2 |-> {CaptureDelayMs}]]
        ELSE IF c.detectionStatus # "locked" /\ c.countdownInProgress
        THEN [setCountdown(clearCountdownTimeouts(c), CountdownNull)
                 EXCEPT !.countdownInProgress = FALSE]
        ELSE c

\* The effects' cleanups at unmount
UnmountCleanup(s) == [clearCountdownTimeouts(s) EXCEPT !.analysisInterval = {}]

\* variant: analyzeFrame does not depend on detectionStatus, the interval survives its changes
Render_KeepsInterval(o, n, streamChanged) ==
    IF ~n.mounted THEN (IF o.mounted THEN UnmountCleanup(n) ELSE n)
    ELSE LET changed == \/ o.autoCaptureEnabled # n.autoCaptureEnabled
                        \/ cameraReady(o) # cameraReady(n)
             a == IF changed THEN AnalysisIntervalEffect(n) ELSE n
         IN  IF changed \/ o.detectionStatus # n.detectionStatus \/ streamChanged
             THEN CountdownEffect(a) ELSE a

\* variant: the countdown effect does not depend on detectionStatus
Render_CountdownIgnoresStatus(o, n, streamChanged) ==
    IF ~n.mounted THEN (IF o.mounted THEN UnmountCleanup(n) ELSE n)
    ELSE LET changed == \/ o.autoCaptureEnabled # n.autoCaptureEnabled
                        \/ cameraReady(o) # cameraReady(n)
             a == IF changed \/ o.detectionStatus # n.detectionStatus
                  THEN AnalysisIntervalEffect(n) ELSE n
         IN  IF changed \/ streamChanged THEN CountdownEffect(a) ELSE a

\* The render after a reaction took the state from o to n.  analyzeFrame changes with
\* autoCaptureEnabled and detectionStatus; handleCapture changes with cameraReady and
\* with the stream (streamChanged).
Render(o, n, streamChanged) ==
    IF ~n.mounted THEN (IF o.mounted THEN UnmountCleanup(n) ELSE n)
    ELSE LET changed == \/ o.autoCaptureEnabled # n.autoCaptureEnabled
                        \/ o.detectionStatus # n.detectionStatus
                        \/ cameraReady(o) # cameraReady(n)
             a == IF changed THEN AnalysisIntervalEffect(n) ELSE n
         IN  IF changed \/ streamChanged THEN CountdownEffect(a) ELSE a

----------------------------------------------------------------------------
\* A reaction: the handler's result n, rendered, becomes the next state

\* What the reaction op did to a countdown that was in progress before it
Interruption(op, f) ==
    LET by == IF op \in {"disable", "noBox"} THEN op ELSE "other"
    IN  IF op = "t2" THEN "none"
        ELSE IF ~f.countdownInProgress THEN by
        ELSE IF mounted /\ ~f.mounted THEN by
        ELSE IF countdownTimeouts.t2 # {} /\ f.countdownTimeouts.t2 = {} THEN by
        ELSE "none"

Before(op) ==
    [op |-> op, from |-> detectionStatus, guard |-> countdownInProgress,
     steady |-> steadyTimeout # {}, age |-> steadyAge, failed |-> steadyFailed,
     cancelled |-> cancelledBy]

React(op, n, streamChanged) ==
    LET f == Render(Cur, n, streamChanged)
    IN  /\ mounted' = f.mounted
        /\ camera' = f.camera
        /\ autoCaptureEnabled' = f.autoCaptureEnabled
        /\ detectionStatus' = f.detectionStatus
        /\ zoom' = f.zoom
        /\ countdown' = f.countdown
        /\ analysisInterval' = f.analysisInterval
        /\ steadyTimeout' = f.steadyTimeout
        /\ countdownTimeouts' = f.countdownTimeouts
        /\ countdownInProgress' = f.countdownInProgress
        /\ isAnalyzing' = f.isAnalyzing
        /\ calls' = f.calls
        /\ audioContext' = f.audioContext
        /\ log' = IF ~countdownInProgress /\ f.countdownInProgress
                  THEN <<<<"start", IF cancelledBy = "none" THEN 0 ELSE 1, 0>>>> \o f.log
                  ELSE IF countdownInProgress /\ ~f.countdownInProgress /\ op # "t2"
                  THEN <<<<"start", 0, 0>>>> \o Tail(f.log)
                  ELSE f.log
        /\ audioSupported' = audioSupported
        /\ cancelledBy' =
              IF ~countdownInProgress /\ f.countdownInProgress THEN "none"
              ELSE IF countdownInProgress /\ cancelledBy = "none" THEN Interruption(op, f)
              ELSE cancelledBy
        /\ last' = Before(op)
        /\ statusAge' = IF f.detectionStatus # detectionStatus \/ f.detectionStatus = "idle"
                         THEN 0 ELSE statusAge
        /\ enteredFrom' = IF f.detectionStatus # detectionStatus THEN detectionStatus
                          ELSE enteredFrom
        /\ sequences' =
              LET started == IF ~countdownInProgress /\ f.countdownInProgress THEN 1 ELSE 0
              IN  IF f.detectionStatus # detectionStatus THEN started
                  ELSE IF sequences + started > SequencesCap THEN SequencesCap
                  ELSE sequences + started
        /\ steadyAge' = IF f.steadyTimeout = {} \/ op = "success" THEN 0 ELSE steadyAge
        /\ steadyFailed' = IF f.steadyTimeout = {} \/ op = "success" THEN FALSE
                           ELSE steadyFailed \/ op \in {"noBox", "error"}

----------------------------------------------------------------------------
\* Reactions

Init ==
    /\ mounted = TRUE
    /\ camera = "acquiring"
    /\ autoCaptureEnabled = FALSE
    /\ detectionStatus = "idle"
    /\ zoom = ZoomOne
    /\ countdown = CountdownNull
    /\ analysisInterval = {}
    /\ steadyTimeout = {}
    /\ countdownTimeouts = NoTimeouts
    /\ countdownInProgress = FALSE
    /\ isAnalyzing = FALSE
    /\ calls = <<>>
    /\ audioContext = FALSE
    /\ audioSupported \in BOOLEAN
    /\ log = <<>>
    /\ cancelledBy = "none"
    /\ last = [op |-> "mount", from |-> "idle", guard |-> FALSE, steady |-> FALSE,
               age |-> 0, failed |-> FALSE, cancelled |-> "none"]
    /\ statusAge = 0
    /\ steadyAge = 0
    /\ steadyFailed = FALSE
    /\ enteredFrom = "idle"
    /\ sequences = 0

\* getUserMedia resolved: setStream(mediaStream)
StreamAcquired ==
    /\ mounted /\ camera = "acquiring"
    /\ React("stream", [Cur EXCEPT !.camera = "stream"], TRUE)

\* video.onloadedmetadata: setCameraReady(true)
MetadataLoaded ==
    /\ mounted /\ camera = "stream"
    /\ React("metadata", [Cur EXCEPT !.camera = "ready"], FALSE)

\* handleToggleCamera: the camera effect restarts, startCamera sets cameraReady false
ToggleCamera ==
    /\ mounted
    /\ React("toggleCamera", [Cur EXCEPT !.camera = "acquiring"], FALSE)

Enable ==
    /\ mounted /\ ~autoCaptureEnabled
    /\ React("enable", handleToggleAutoCapture(Cur), FALSE)

Disable ==
    /\ mounted /\ autoCaptureEnabled
    /\ React("disable", handleToggleAutoCapture(Cur), FALSE)

\* Leaving the screen: the capture button, an upload or the bottom navigation
Unmount ==
    /\ mounted
    /\ React("unmount", [Cur EXCEPT !.mounted = FALSE], FALSE)

\* analyzeFrame up to its await, as called by the interval
Rearmed == [Cur EXCEPT !.analysisInterval = {AnalysisPeriodMs}]

\* variant: no single-flight check
ReturnsEarly_NoFlightCheck(s) == ~s.mounted \/ ~s.autoCaptureEnabled

\* if (isAnalyzingRef.current || !videoRef.current || !canvasRef.current || !autoCaptureEnabled) return;
ReturnsEarly(s) == s.isAnalyzing \/ ~s.mounted \/ ~s.autoCaptureEnabled

TickDropped ==
    /\ 0 \in analysisInterval
    /\ ReturnsEarly(Cur)
    /\ React("dropped", Rearmed, FALSE)

TickStartsCall ==
    /\ 0 \in analysisInterval
    /\ ~ReturnsEarly(Cur)
    /\ React("call", [Rearmed EXCEPT !.isAnalyzing = TRUE,
                                     !.calls = Append(@, detectionStatus)], FALSE)

\* the try block raises before the call is made: catch, finally
AnalyzeCatch(s) ==
    [setZoom(setDetectionStatus(s, "idle"), ZoomOne) EXCEPT !.isAnalyzing = FALSE]

TickThrows ==
    /\ 0 \in analysisInterval
    /\ ~ReturnsEarly(Cur)
    /\ React("error", AnalyzeCatch([Rearmed EXCEPT !.isAnalyzing = TRUE]), FALSE)

Remove(q, i) == SubSeq(q, 1, i - 1) \o SubSeq(q, i + 1, Len(q))

\* variant: the steadiness timeout is restarted also while a countdown is in progress
ApplySuccess_IgnoresGuard(s, closureStatus, boxWidth) ==
    LET a == IF closureStatus # "locked" THEN setDetectionStatus(s, "tracking") ELSE s
        b == setZoom(a, SmoothZoom(a.zoom, newZoom(boxWidth)))
    IN  [b EXCEPT !.steadyTimeout = {SteadyMs}]

\* analyzeFrame after its await: result.success && result.box
ApplySuccess(s, closureStatus, boxWidth) ==
    LET a == IF closureStatus # "locked" THEN setDetectionStatus(s, "tracking") ELSE s
        b == setZoom(a, SmoothZoom(a.zoom, newZoom(boxWidth)))
        c == [b EXCEPT !.steadyTimeout = {}]
    IN  IF ~c.countdownInProgress THEN [c EXCEPT !.steadyTimeout = {SteadyMs}] ELSE c

\* variant: a lock survives a missed detection
ApplyNoBox_KeepsLock(s) ==
    LET a == [s EXCEPT !.steadyTimeout = {}]
        b == IF a.detectionStatus = "locked" THEN a ELSE setDetectionStatus(a, "idle")
    IN  setZoom(b, SmoothZoom(a.zoom, ZoomOne))

\* analyzeFrame after its await: no usable box
ApplyNoBox(s) ==
    LET a == [s EXCEPT !.steadyTimeout = {}]
    IN  setZoom(setDetectionStatus(a, "idle"), SmoothZoom(a.zoom, ZoomOne))

\* variant: the finally block forgets the flag
Finally_KeepsFlag(s, i) == [s EXCEPT !.calls = Remove(@, i)]

\* variant: completion replays a tick, starting the next call at once
Finally_ReplaysTick(s, i) ==
    [s EXCEPT !.isAnalyzing = TRUE, !.calls = Append(Remove(@, i), s.detectionStatus)]

\* finally { isAnalyzingRef.current = false; }
Finally(s, i) == [s EXCEPT !.isAnalyzing = FALSE, !.calls = Remove(@, i)]

ZoomFollowed(s) == s.zoom[2] <= ZoomDenCap

DetectionSucceeds ==
    \E i \in 1..Len(calls), w \in BoxWidths :
        LET n == Finally(ApplySuccess(Cur, calls[i], w), i)
        IN  /\ ZoomFollowed(n)
            /\ React("success", n, FALSE)

DetectionFindsNoBox ==
    \E i \in 1..Len(calls) :
        LET n == Finally(ApplyNoBox(Cur), i)
        IN  /\ ZoomFollowed(n)
            /\ React("noBox", n, FALSE)

\* the steadiness timeout's callback
SteadyFires ==
    /\ 0 \in steadyTimeout
    /\ React("steady", setDetectionStatus([Cur EXCEPT !.steadyTimeout = {}], "locked"), FALSE)

\* t1's callback
CountdownT1(s) ==
    playBeep(setCountdown([s EXCEPT !.countdownTimeouts.t1 = {}], CountdownSecond),
             ToneA, ToneADurationMs)

T1Fires ==
    /\ 0 \in countdownTimeouts.t1
    /\ React("t1", CountdownT1(Cur), FALSE)

\* t2's callback
CountdownT2(s) ==
    LET a == setCountdown([s EXCEPT !.countdownTimeouts.t2 = {}], CountdownNull)
        b == handleCapture(playBeep(a, ToneB, ToneBDurationMs))
    IN  [b EXCEPT !.countdownInProgress = FALSE]

T2Fires ==
    /\ 0 \in countdownTimeouts.t2
    /\ React("t2", CountdownT2(Cur), FALSE)

\* Quantum ms pass; a timer that is due fires first
Advance ==
    /\ 0 \notin analysisInterval \cup steadyTimeout \cup countdownTimeouts.t1 \cup countdownTimeouts.t2
    /\ analysisInterval' = Elapse(analysisInterval)
    /\ steadyTimeout' = Elapse(steadyTimeout)
    /\ countdownTimeouts' = [t1 |-> Elapse(countdownTimeouts.t1), t2 |-> Elapse(countdownTimeouts.t2)]
    /\ statusAge' = IF mounted /\ detectionStatus # "idle" THEN Older(statusAge) ELSE statusAge
    /\ steadyAge' = IF steadyTimeout = {} THEN 0 ELSE Older(steadyAge)
    /\ last' = Before("advance")
    /\ UNCHANGED <<mounted, camera, autoCaptureEnabled, detectionStatus, zoom, countdown,
                   countdownInProgress, isAnalyzing, calls, audioContext, audioSupported,
                   log, cancelledBy, steadyFailed, enteredFrom, sequences>>

Next ==
    \/ StreamAcquired
    \/ MetadataLoaded
    \/ ToggleCamera
    \/ Enable
    \/ Disable
    \/ Unmount
    \/ TickDropped
    \/ TickStartsCall
    \/ TickThrows
    \/ DetectionSucceeds
    \/ DetectionFindsNoBox
    \/ SteadyFires
    \/ T1Fires
    \/ T2Fires
    \/ Advance

Spec == Init /\ [][Next]_vars

----------------------------------------------------------------------------
\* The component left alone with a detection service that answers every call at
\* once with a usable box: nobody disables the feature, switches the camera or
\* leaves the screen.

AdvanceAnswered == calls = <<>> /\ Advance

NextSteady ==
    \/ StreamAcquired
    \/ MetadataLoaded
    \/ Enable
    \/ TickStartsCall
    \/ DetectionSucceeds
    \/ SteadyFires
    \/ T1Fires
    \/ T2Fires
    \/ AdvanceAnswered

SpecSteady == Init /\ [][NextSteady]_vars

----------------------------------------------------------------------------
\* The zoom arithmetic on its own: a starting zoom and a box width are drawn, then
\* results with that box (lines 319-322) and results without a box (line 334) are
\* applied in any order, at most MaxZoomSteps of them.

InitZoom ==
    /\ mounted = TRUE
    /\ camera = "ready"
    /\ autoCaptureEnabled = TRUE
    /\ detectionStatus = "idle"
    /\ zoom \in {Rat(z[1], z[2]) : z \in ZoomStarts}
    /\ countdown = CountdownNull
    /\ analysisInterval = {}
    /\ steadyTimeout = {}
    /\ countdownTimeouts = NoTimeouts
    /\ countdownInProgress = FALSE
    /\ isAnalyzing = FALSE
    /\ calls = <<>>
    /\ audioContext = FALSE
    /\ audioSupported = FALSE
    /\ log = <<>>
    /\ cancelledBy = "none"
    /\ \E w \in ZoomWidths :
          last = [op |-> "start", w |-> w, from |-> zoom, target |-> zoom, steps |-> 0]
    /\ statusAge = 0
    /\ steadyAge = 0
    /\ steadyFailed = FALSE
    /\ enteredFrom = "idle"
    /\ sequences = 0

\* the record of a tick that took zoom toward target
Ticked(op, target) ==
    [op |-> op, w |-> last.w, from |-> zoom, target |-> target, steps |-> last.steps + 1]

\* setZoom(z => z + (newZoom - z) * 0.2) with newZoom computed from the box
ZoomInTick ==
    /\ last.steps < MaxZoomSteps
    /\ zoom' = setZoom(Cur, SmoothZoom(zoom, newZoom(last.w))).zoom
    /\ last' = Ticked("zoomIn", newZoom(last.w))
    /\ UNCHANGED <<mounted, camera, autoCaptureEnabled, detectionStatus, countdown,
                   analysisInterval, steadyTimeout, countdownTimeouts, countdownInProgress,
                   isAnalyzing, calls, audioContext, audioSupported, log, cancelledBy,
                   statusAge, steadyAge, steadyFailed, enteredFrom, sequences>>

\* setZoom(z => z + (1 - z) * 0.2)
ZoomOutTick ==
    /\ last.steps < MaxZoomSteps
    /\ zoom' = setZoom(Cur, SmoothZoom(zoom, ZoomOne)).zoom
    /\ last' = Ticked("zoomOut", ZoomOne)
    /\ UNCHANGED <<mounted, camera, autoCaptureEnabled, detectionStatus, countdown,
                   analysisInterval, steadyTimeout, countdownTimeouts, countdownInProgress,
                   isAnalyzing, calls, audioContext, audioSupported, log, cancelledBy,
                   statusAge, steadyAge, steadyFailed, enteredFrom, sequences>>

NextZoom ==
    \/ ZoomInTick
    \/ ZoomOutTick

SpecZoom == InitZoom /\ [][NextZoom]_vars

----------------------------------------------------------------------------
\* The other parts of the program. Each has a specification of its own, whose state
\* is the record last; the capture session is left as it is constructed.

SessionAtRest ==
    /\ mounted = TRUE
    /\ camera = "acquiring"
    /\ autoCaptureEnabled = FALSE
    /\ detectionStatus = "idle"
    /\ zoom = ZoomOne
    /\ countdown = CountdownNull
    /\ analysisInterval = {}
    /\ steadyTimeout = {}
    /\ countdownTimeouts = NoTimeouts
    /\ countdownInProgress = FALSE
    /\ isAnalyzing = FALSE
    /\ calls = <<>>
    /\ audioContext = FALSE
    /\ audioSupported = FALSE
    /\ log = <<>>
    /\ cancelledBy = "none"
    /\ statusAge = 0
    /\ steadyAge = 0
    /\ steadyFailed = FALSE
    /\ enteredFrom = "idle"
    /\ sequences = 0

SessionUnchanged ==
    UNCHANGED <<mounted, camera, autoCaptureEnabled, detectionStatus, zoom, countdown,
                analysisInterval, steadyTimeout, countdownTimeouts, countdownInProgress,
                isAnalyzing, calls, audioContext, audioSupported, log, cancelledBy,
                statusAge, steadyAge, steadyFailed, enteredFrom, sequences>>

----------------------------------------------------------------------------
\* The analysis frame: analyzeFrame sizes the canvas from the video and draws the
\* frame over the whole canvas (lines 295-307). A canvas dimension is an integer:
\* the assigned value is truncated.

CanvasWidth == 640
VideoEdges == {1, 2, 3, 240, 320, 480, 640, 720, 1080, 1280, 1920}

\* variant: the video's longer edge is scaled to the canvas width
CanvasHeight_FitsLongerEdge(videoWidth, videoHeight) ==
    IF videoHeight > videoWidth THEN CanvasWidth
    ELSE (videoHeight * CanvasWidth) \div videoWidth

\* canvas.height = (video.videoHeight / video.videoWidth) * 640
CanvasHeight(videoWidth, videoHeight) == (videoHeight * CanvasWidth) \div videoWidth

InitFrame ==
    /\ SessionAtRest
    /\ \E vw \in VideoEdges, vh \in VideoEdges :
          last = [op |-> "start", videoWidth |-> vw, videoHeight |-> vh,
                  width |-> 300, height |-> 150]   \* a canvas element never sized

\* the camera delivers a stream of another size
VideoResized ==
    /\ \E vw \in VideoEdges, vh \in VideoEdges :
          /\ <<vw, vh>> # <<last.videoWidth, last.videoHeight>>
          /\ last' = [last EXCEPT !.op = "resized", !.videoWidth = vw, !.videoHeight = vh]
    /\ SessionUnchanged

\* canvas.width = 640; canvas.height = ...; drawImage(video, 0, 0, canvas.width, canvas.height)
FrameSampled ==
    /\ last' = [last EXCEPT !.op = "frame", !.width = CanvasWidth,
                            !.height = CanvasHeight(last.videoWidth, last.videoHeight)]
    /\ SessionUnchanged

NextFrame ==
    \/ VideoResized
    \/ FrameSampled

SpecFrame == InitFrame /\ [][NextFrame]_vars

----------------------------------------------------------------------------
\* The detection client: findEyeInFrame (src/types.ts 400-461). The remote call either
\* rejects or answers with a text; the text is no JSON, the JSON null, or an object
\* with eyeFound and possibly a box. Coordinates are hundredths of the frame.

NoBox == [none |-> TRUE]
BoxCoordinates == {0, 50, 100}
Boxes == [xMin : BoxCoordinates, yMin : BoxCoordinates, xMax : BoxCoordinates, yMax : BoxCoordinates]
Answers ==
    [kind : {"rejects", "notJson", "jsonNull"}, eyeFound : {FALSE}, box : {NoBox}]
        \cup [kind : {"object"}, eyeFound : BOOLEAN, box : Boxes \cup {NoBox}]

Failure(message) == [settled |-> "fulfilled", success |-> FALSE, error |-> message]

\* variant: no catch around the remote call
findEyeInFrame_NoCatch(answer) ==
    IF answer.kind = "rejects" THEN [settled |-> "rejected", success |-> FALSE]
    ELSE IF answer.kind # "object" THEN Failure("AI analysis failed.")
    ELSE IF answer.eyeFound /\ answer.box # NoBox
    THEN [settled |-> "fulfilled", success |-> TRUE, box |-> answer.box]
    ELSE Failure("No eye found in frame.")

\* try { await generateContent; JSON.parse; if (parsed.eyeFound && parsed.box) ... } catch
findEyeInFrame(answer) ==
    IF answer.kind # "object"
    THEN Failure("AI analysis failed.")     \* the await, JSON.parse or parsed.eyeFound throws
    ELSE IF answer.eyeFound /\ answer.box # NoBox
    THEN [settled |-> "fulfilled", success |-> TRUE,
          centerX |-> <<answer.box.xMin + answer.box.xMax, 2>>,     \* a fraction <<num, den>>
          centerY |-> <<answer.box.yMin + answer.box.yMax, 2>>,
          radius |-> <<answer.box.xMax - answer.box.xMin, 2>>,
          box |-> answer.box]
    ELSE Failure("No eye found in frame.")

InitDetect ==
    /\ SessionAtRest
    /\ last = [op |-> "start"]

DetectionAnswered ==
    /\ \E answer \in Answers :
          last' = [op |-> "answered", answer |-> answer, result |-> findEyeInFrame(answer)]
    /\ SessionUnchanged

NextDetect == DetectionAnswered

SpecDetect == InitDetect /\ [][NextDetect]_vars

----------------------------------------------------------------------------
\* The App component (src/types.ts 119-297): screens, credits and the export history.
\* A click handler and the re-render that follows it are one step, so a handler
\* always sees the credits of the state it is taken in.

InitialCredits == 3
MaxCredits == 23              \* purchases are followed up to this many credits
MaxHistory == 3               \* exports are followed up to this many history items
Packs == {1, 5, 20, 10}       \* the credits of the store's items
Thumbnails == {"plain", "edited"}   \* the image the edit screen hands to an export
Tabs == {"GALLERY", "IRIDOLOGY", "CAPTURE", "STORE", "SETTINGS"}
NoDestination == "null"

InitApp ==
    /\ SessionAtRest
    /\ last = [op |-> "start", screen |-> "ONBOARDING", activeTab |-> "CAPTURE",
               credits |-> InitialCredits, history |-> <<>>,
               croppedImage |-> FALSE, enhancedImage |-> FALSE,
               postCaptureDestination |-> NoDestination]

showHeaderAndNav == last.screen \in {"CAPTURE", "GALLERY", "STORE", "SETTINGS", "IRIDOLOGY"}

goToCapture(a) ==
    [a EXCEPT !.croppedImage = FALSE, !.enhancedImage = FALSE,
              !.screen = "CAPTURE", !.activeTab = "CAPTURE"]

\* onComplete of onboarding, onRetake, onBack of the edit screen, onDone, onError
GoToCapture ==
    /\ last.screen \in {"ONBOARDING", "CROP", "PROCESSING", "ENHANCE_RESULT", "EDIT", "EXPORT"}
    /\ last' = [goToCapture(last) EXCEPT !.op = "goToCapture"]
    /\ SessionUnchanged

StartIridologyCaptureFlow ==
    /\ last.screen = "IRIDOLOGY"
    /\ last' = [goToCapture(last) EXCEPT !.op = "startIridologyCaptureFlow",
                                         !.postCaptureDestination = "IRIDOLOGY"]
    /\ SessionUnchanged

HandleImageCaptured ==
    /\ last.screen = "CAPTURE"
    /\ last' = [last EXCEPT !.op = "handleImageCaptured", !.croppedImage = FALSE,
                            !.enhancedImage = FALSE, !.screen = "CROP"]
    /\ SessionUnchanged

HandleCropComplete ==
    /\ last.screen = "CROP"
    /\ last' = [last EXCEPT !.op = "handleCropComplete", !.screen = "PROCESSING"]
    /\ SessionUnchanged

HandleProcessingComplete ==
    /\ last.screen = "PROCESSING"
    /\ last' = IF last.postCaptureDestination # NoDestination
               THEN [last EXCEPT !.op = "handleProcessingComplete",
                                 !.croppedImage = TRUE, !.enhancedImage = TRUE,
                                 !.postCaptureDestination = NoDestination,
                                 !.screen = last.postCaptureDestination,
                                 !.activeTab = last.postCaptureDestination]
               ELSE [last EXCEPT !.op = "handleProcessingComplete",
                                 !.croppedImage = TRUE, !.enhancedImage = TRUE,
                                 !.screen = "ENHANCE_RESULT"]
    /\ SessionUnchanged

GoToEdit ==
    /\ last.screen \in {"ENHANCE_RESULT", "EXPORT"}
    /\ last' = [last EXCEPT !.op = "goToEdit", !.screen = "EDIT"]
    /\ SessionUnchanged

GoToWatchFace ==
    /\ last.screen = "EXPORT"
    /\ last' = [last EXCEPT !.op = "goToWatchFace", !.screen = "WATCHFACE"]
    /\ SessionUnchanged

GoToExport ==
    /\ last.screen = "WATCHFACE"
    /\ last' = [last EXCEPT !.op = "goToExport", !.screen = "EXPORT"]
    /\ SessionUnchanged

GoToIridology ==
    /\ last.screen = "EXPORT"
    /\ last' = [last EXCEPT !.op = "goToIridology", !.screen = "IRIDOLOGY",
                            !.activeTab = "IRIDOLOGY"]
    /\ SessionUnchanged

NavigateToTab ==
    /\ showHeaderAndNav
    /\ \E tab \in Tabs :
          last' = [last EXCEPT !.op = "navigateToTab", !.postCaptureDestination = NoDestination,
                              !.activeTab = tab, !.screen = tab]
    /\ SessionUnchanged

\* variant: the export does not look at the credits
handleExport_NoCreditCheck(a, imageDataUrl) ==
    [a EXCEPT !.credits = @ - 1,
              !.history = <<[thumbnail |-> imageDataUrl, original |-> a.croppedImage,
                             enhanced |-> a.enhancedImage]>> \o @,
              !.screen = "EXPORT"]

\* the item's id, the time of the export, is left out
handleExport(a, imageDataUrl) ==
    IF a.credits > 0
    THEN [a EXCEPT !.credits = @ - 1,
                   !.history = <<[thumbnail |-> imageDataUrl, original |-> a.croppedImage,
                                  enhanced |-> a.enhancedImage]>> \o @,
                   !.screen = "EXPORT"]
    ELSE [a EXCEPT !.screen = "STORE", !.activeTab = "STORE"]

\* the edit screen's export button
HandleExport ==
    /\ last.screen = "EDIT"
    /\ Len(last.history) < MaxHistory \/ last.credits = 0
    /\ \E imageDataUrl \in Thumbnails :
          last' = [handleExport(last, imageDataUrl) EXCEPT !.op = "handleExport"]
    /\ SessionUnchanged

\* onPurchase of a store item: setCredits(c => c + n)
Purchase ==
    /\ last.screen = "STORE"
    /\ \E n \in Packs :
          /\ last.credits + n <= MaxCredits
          /\ last' = [last EXCEPT !.op = "purchase", !.credits = @ + n]
    /\ SessionUnchanged

NextApp ==
    \/ GoToCapture
    \/ StartIridologyCaptureFlow
    \/ HandleImageCaptured
    \/ HandleCropComplete
    \/ HandleProcessingComplete
    \/ GoToEdit
    \/ GoToWatchFace
    \/ GoToExport
    \/ GoToIridology
    \/ NavigateToTab
    \/ HandleExport
    \/ Purchase

SpecApp == InitApp /\ [][NextApp]_vars

----------------------------------------------------------------------------
\* The edit screen (src/components/EditScreen.tsx 33-92). An effect is applied by a
\* remote call; the handler that awaits it keeps the history and historyIndex of the
\* render it was created in. historyIndex counts from 0.

MaxEdits == 3                 \* an effect is applied only if the history would get no longer than this
EffectKeys == {"cosmic", "luminous", "inferno"}   \* three of the eight effects
NoEffect == "null"

InitEdit ==
    /\ SessionAtRest
    /\ last = [op |-> "start", history |-> <<NoEffect>>, historyIndex |-> 0,
               isApplyingEffect |-> FALSE, applyingEffectKey |-> NoEffect,
               flights |-> <<>>]

canUndo(e) == e.historyIndex > 0

canRedo(e) == e.historyIndex < Len(e.history) - 1

\* handleApplyEffect up to its await; the call in flight holds the handler's closure
ApplyEffect ==
    /\ ~last.isApplyingEffect
    /\ last.historyIndex + 1 < MaxEdits
    /\ \E effectKey \in EffectKeys :
          last' = [last EXCEPT !.op = "apply", !.applyingEffectKey = effectKey,
                              !.isApplyingEffect = TRUE,
                              !.flights = Append(@, [effectKey |-> effectKey,
                                                     history |-> last.history,
                                                     historyIndex |-> last.historyIndex])]
    /\ SessionUnchanged

\* const newHistory = history.slice(0, historyIndex + 1); newHistory.push(newHistoryState)
newHistory(flight) == Append(SubSeq(flight.history, 1, flight.historyIndex + 1), flight.effectKey)

\* variant: the completion stores the new history and leaves historyIndex alone
applied_KeepsIndex(e, flight) == [e EXCEPT !.history = newHistory(flight)]

\* setHistory(newHistory); setHistoryIndex(newHistory.length - 1)
applied(e, flight) ==
    [e EXCEPT !.history = newHistory(flight), !.historyIndex = Len(newHistory(flight)) - 1]

\* the call resolves: try block after the await, finally
EffectApplied ==
    /\ \E i \in 1..Len(last.flights) :
          last' = [applied(last, last.flights[i]) EXCEPT
                      !.op = "applied", !.isApplyingEffect = FALSE,
                      !.applyingEffectKey = NoEffect, !.flights = Remove(@, i)]
    /\ SessionUnchanged

\* the call rejects: catch, finally
EffectFails ==
    /\ \E i \in 1..Len(last.flights) :
          last' = [last EXCEPT !.op = "failed", !.isApplyingEffect = FALSE,
                              !.applyingEffectKey = NoEffect, !.flights = Remove(@, i)]
    /\ SessionUnchanged

handleUndo(e) == IF canUndo(e) THEN [e EXCEPT !.historyIndex = @ - 1] ELSE e

handleRedo(e) == IF canRedo(e) THEN [e EXCEPT !.historyIndex = @ + 1] ELSE e

\* the undo button is disabled unless canUndo
Undo ==
    /\ canUndo(last)
    /\ last' = [handleUndo(last) EXCEPT !.op = "undo"]
    /\ SessionUnchanged

\* the redo button is disabled unless canRedo
Redo ==
    /\ canRedo(last)
    /\ last' = [handleRedo(last) EXCEPT !.op = "redo"]
    /\ SessionUnchanged

NextEdit ==
    \/ ApplyEffect
    \/ EffectApplied
    \/ EffectFails
    \/ Undo
    \/ Redo

SpecEdit == InitEdit /\ [][NextEdit]_vars

----------------------------------------------------------------------------
\* Properties

Shows(l) == SelectSeq(l, LAMBDA e : e[1] = "show")

Captured == Len(log) > 0 /\ log[Len(log)][1] = "capture"

Locked == mounted /\ autoCaptureEnabled /\ detectionStatus = "locked"

\* C1: in every reachable state at most one findEyeInFrame call is in flight.
C1_SingleFlight == Len(calls) <= 1

\* a sampling tick met a call in flight and was dropped
C1_Witness == mounted /\ autoCaptureEnabled /\ Len(calls) = 1 /\ last.op = "dropped"

\* C2: whatever the tracking state was, it is idle right after a result without a
\* usable box has been applied.
C2_NoBoxGivesIdle == (mounted /\ last.op = "noBox") => detectionStatus = "idle"

\* a lock was dropped by a result without a box
C2_Witness == mounted /\ last.op = "noBox" /\ last.from = "locked" /\ detectionStatus = "idle"

\* C3: a disable while a countdown is in progress leaves the display null and no
\* countdown timeout pending, and that countdown never captures.
C3_DisableCancelsCountdown ==
    /\ (last.op = "disable" /\ last.guard) =>
           countdown = CountdownNull /\ countdownTimeouts = NoTimeouts
    /\ cancelledBy = "disable" => ~Captured

\* the feature was disabled after the countdown had shown 2 and 1
C3_Witness ==
    /\ last.op = "disable" /\ last.guard /\ cancelledBy = "disable"
    /\ Shows(log) = <<<<"show", CountdownFirst, 0>>, <<"show", CountdownSecond, 0>>>>

\* C4: a result without a usable box applied while a countdown is in progress drops
\* the state to idle, cancels the countdown timeouts, clears the display and the
\* guard, and that countdown never captures.
C4_NoBoxCancelsCountdown ==
    /\ (mounted /\ last.op = "noBox" /\ last.guard) =>
           /\ detectionStatus = "idle"
           /\ countdownTimeouts = NoTimeouts
           /\ countdown = CountdownNull
           /\ ~countdownInProgress
    /\ cancelledBy = "noBox" => ~Captured

\* a result without a box arrived inside the countdown window
C4_Witness ==
    /\ mounted /\ last.op = "noBox" /\ last.guard /\ cancelledBy = "noBox"
    /\ Len(Shows(log)) >= 1

\* C5: a lock at T0 that stays locked and enabled shows 2 from T0, 1 from T0+1000 ms,
\* and captures at exactly T0+2000 ms with the display null; no capture happens
\* without the display having shown 2 and then 1.
C5_CountdownSchedule ==
    /\ (Locked /\ statusAge < CountdownStepMs) => countdown = CountdownFirst
    /\ (Locked /\ CountdownStepMs < statusAge /\ statusAge < CaptureDelayMs) =>
           countdown = CountdownSecond
    /\ Locked => statusAge <= CaptureDelayMs
    /\ (Locked /\ last.op = "t2") => Captured
    /\ (Captured /\ last.op = "t2") =>
           /\ statusAge = CaptureDelayMs
           /\ countdown = CountdownNull
           /\ Shows(log) = <<<<"show", CountdownFirst, 0>>, <<"show", CountdownSecond, 0>>>>

\* C6: the state becomes locked only by a steadiness timeout started at least 500 ms
\* earlier with no failed outcome applied since; a failed outcome (no usable box, or
\* an error raised by the step) leaves no steadiness timeout pending.
C6_LockNeedsSteadyDwell ==
    /\ (mounted /\ last.op = "steady") => (last.age >= SteadyMs /\ ~last.failed)
    /\ (mounted /\ detectionStatus = "locked" /\ last.from # "locked") => last.op = "steady"
    /\ last.op \in {"noBox", "error"} => steadyTimeout = {}

\* C7: while the feature stays enabled, a state that went from idle to tracking has
\* its steadiness timeout pending and due 500 ms after that transition, so it is
\* locked no later than that; later successful results do not postpone it.
C7_LockWithinDwell ==
    (mounted /\ autoCaptureEnabled /\ detectionStatus = "tracking" /\ enteredFrom = "idle") =>
        steadyTimeout = {SteadyMs - statusAge}

\* the dwell ended in a lock 500 ms after the idle-to-tracking transition
C7_Witness ==
    /\ Locked /\ last.op = "steady" /\ last.from = "tracking" /\ last.age = SteadyMs
    /\ enteredFrom = "tracking"

C10_DisableResets ==
    last.op = "disable" =>
        /\ detectionStatus = "idle"
        /\ zoom = ZoomOne
        /\ countdown = CountdownNull
        /\ ~countdownInProgress
        /\ analysisInterval = {}
        /\ steadyTimeout = {}
        /\ countdownTimeouts = NoTimeouts

\* the feature was disabled while a steadiness timeout was pending
C10_Witness == last.op = "disable" /\ last.steady /\ last.from = "tracking"

\* C11: while the feature is disabled the tracking state is idle, zoom is 1, the
\* display is null and no steadiness timeout is pending, also after a detection call
\* started before the disable has completed.
C11_DisabledStaysIdle ==
    (mounted /\ ~autoCaptureEnabled) =>
        /\ detectionStatus = "idle"
        /\ zoom = ZoomOne
        /\ countdown = CountdownNull
        /\ steadyTimeout = {}

\* C12: right after disable the single-flight flag is clear, whether or not a
\* detection call is still unresolved.
C12_DisableClearsInFlight == last.op = "disable" => ~isAnalyzing

RatSub(a, b) == Rat(a[1] * b[2] - b[1] * a[2], a[2] * b[2])

RatAbs(a) == IF a[1] < 0 THEN <<0 - a[1], a[2]>> ELSE a

Dist(a, b) == RatAbs(RatSub(a, b))

\* C13: in every reachable state zoom is within [1, 4], whatever the detection
\* outcomes and the box widths were, widths of zero and of 0.01 included.
C13_ZoomInRange == ~RatLess(zoom, Rat(MinZoom, 1)) /\ ~RatLess(Rat(MaxZoom, 1), zoom)

\* two results with a box narrower than a tenth of the frame were applied
C13_Witness ==
    /\ mounted /\ last.op = "success"
    /\ zoom = SmoothZoom(SmoothZoom(ZoomOne, Rat(MaxZoom, 1)), Rat(MaxZoom, 1))

C15_ZoomMovesBySmoothing ==
    [][(mounted /\ mounted' /\ autoCaptureEnabled /\ autoCaptureEnabled') =>
           /\ last'.op = "success" =>
                  \E w \in BoxWidths : zoom' = SmoothZoom(zoom, newZoom(w))
           /\ last'.op \in {"noBox", "error"} => zoom' = SmoothZoom(zoom, ZoomOne)]_vars

\* C16: for a box of width w in (0, 1] the target zoom is 0.40 / w clamped to [1, 4]:
\* 4 for w <= 0.10, 1 for w >= 0.40, the quotient in between.
C16_TargetZoom ==
    (last.op = "zoomIn" /\ last.w > 0) =>
        /\ last.w * MaxZoom <= targetBoxWidth => last.target = <<MaxZoom, 1>>
        /\ last.w * MinZoom >= targetBoxWidth => last.target = <<MinZoom, 1>>
        /\ (last.w * MaxZoom > targetBoxWidth /\ last.w * MinZoom < targetBoxWidth) =>
               last.target[1] * last.w = targetBoxWidth * last.target[2]
        /\ last.w = 40 => last.target = <<1, 1>>
        /\ last.w = 10 => last.target = <<4, 1>>

\* a box a quarter of the frame wide gave the unclamped target 1.6
C16_Witness == last.op = "zoomIn" /\ last.w = 25 /\ last.target = <<8, 5>>

\* C17: during one lock episode (the state continuously locked) at most one countdown
\* sequence is started, and a capture ends an episode that had exactly one.
C17_OneCountdownPerLock ==
    /\ detectionStatus = "locked" => sequences <= 1
    /\ Captured => sequences = 1

AfterCancel == Len(log) > 0 /\ log[1] = <<"start", 1, 0>>

\* C18: once a countdown has been cancelled none of its timeouts is pending, and the
\* next countdown starts at a new entry into locked as a complete sequence of its own:
\* display 2 at the new lock time with t1 due in 1000 ms and t2 in 2000 ms, display 1
\* from 1000 ms, and the capture at 2000 ms after that sequence's own 2 and 1.
C18_FreshSequenceAfterCancel ==
    /\ (cancelledBy # "none" /\ ~Captured) => countdownTimeouts = NoTimeouts
    /\ (mounted /\ last.cancelled # "none" /\ ~last.guard /\ countdownInProgress) =>
           /\ detectionStatus = "locked" /\ statusAge = 0
           /\ countdown = CountdownFirst
           /\ countdownTimeouts = [t1 |-> {CountdownStepMs}, t2 |-> {CaptureDelayMs}]
           /\ Shows(log) = <<<<"show", CountdownFirst, 0>>>>
    /\ (Locked /\ AfterCancel /\ sequences = 1) =>
           /\ statusAge < CountdownStepMs => countdown = CountdownFirst
           /\ (CountdownStepMs < statusAge /\ statusAge < CaptureDelayMs) =>
                  countdown = CountdownSecond
           /\ statusAge <= CaptureDelayMs
    /\ (Captured /\ AfterCancel /\ sequences = 1) =>
           /\ statusAge = CaptureDelayMs
           /\ Shows(log) = <<<<"show", CountdownFirst, 0>>, <<"show", CountdownSecond, 0>>>>

Beeps(l) == SelectSeq(l, LAMBDA e : e[1] = "beep")

\* C20: when no audio context can be created, no tone is ever produced, and the
\* final countdown step, with the camera ready, still captures with the display
\* null after it has shown 2 and then 1.
C20_NoAudioNoTones ==
    ~audioSupported =>
        /\ ~audioContext
        /\ Beeps(log) = <<>>
        /\ (last.op = "t2" /\ camera = "ready") =>
               /\ Captured
               /\ countdown = CountdownNull
               /\ Shows(log) = <<<<"show", CountdownFirst, 0>>, <<"show", CountdownSecond, 0>>>>

\* a countdown ran to its capture without an audio context
C20_Witness ==
    /\ ~audioSupported /\ Captured /\ last.op = "t2" /\ last.guard
    /\ Beeps(log) = <<>> /\ statusAge = CaptureDelayMs

\* C21: a detection step that raises an error leaves what a result without a usable
\* box leaves: the state idle, no steadiness timeout pending, zoom one smoothing
\* step closer to 1, and the single-flight flag clear.
C21_ErrorLikeNoBox ==
    [][(mounted /\ mounted' /\ last'.op = "error") =>
           /\ detectionStatus' = "idle"
           /\ steadyTimeout' = {}
           /\ zoom' = SmoothZoom(zoom, ZoomOne)
           /\ ~isAnalyzing']_vars

\* C22: once the screen is unmounted no timer of the session is pending: not the
\* sampling interval, not the steadiness timeout, not a countdown timeout.
C22_UnmountCancelsTimers ==
    ~mounted =>
        /\ analysisInterval = {}
        /\ steadyTimeout = {}
        /\ countdownTimeouts = NoTimeouts

\* C23: right after the feature has been enabled the tracking state is idle and
\* zoom is 1.
C23_EnableResets == last.op = "enable" => (detectionStatus = "idle" /\ zoom = ZoomOne)

\* C24: a sampling step gets past its guard, and starts a detection call, only with
\* the feature enabled, the camera ready and no other call in flight; no sampling
\* tick is pending while the feature is disabled or the camera is not ready.
C24_CallPreconditions ==
    /\ last.op \in {"call", "error"} =>
           mounted /\ autoCaptureEnabled /\ camera = "ready"
    /\ last.op = "call" => (isAnalyzing /\ Len(calls) = 1)
    /\ analysisInterval # {} => (mounted /\ autoCaptureEnabled /\ camera = "ready")

\* a call was started while a countdown was running
C24_Witness ==
    /\ last.op = "call" /\ calls = <<"locked">> /\ countdownInProgress
    /\ camera = "ready" /\ autoCaptureEnabled

\* C25: while the feature stays enabled and the camera ready, sampling ticks are
\* exactly 750 ms apart: a tick re-arms the interval for 750 ms, and nothing but the
\* passing of time changes when the next tick is due, a change of the tracking state
\* included.
C25_FixedSamplingPeriod ==
    [][(/\ mounted /\ autoCaptureEnabled /\ camera = "ready"
        /\ mounted' /\ autoCaptureEnabled' /\ camera' = "ready") =>
           IF last'.op \in {"call", "dropped", "error"}
           THEN analysisInterval' = {AnalysisPeriodMs}
           ELSE IF last'.op = "advance"
           THEN analysisInterval' = Elapse(analysisInterval)
           ELSE analysisInterval' = analysisInterval]_vars

\* C26: a successful result applied while a steadiness timeout is pending leaves
\* that timeout pending with its original firing time.
C26_SteadyTimerNotRestarted ==
    (last.op = "success" /\ last.steady) => steadyTimeout = {SteadyMs - last.age}

\* C27: a successful result starts a steadiness timeout only if none was pending and
\* no countdown was in progress when it was applied; at most one steadiness timeout is
\* pending, and none while the countdown guard is set.
C27_SteadyTimerStart ==
    /\ (last.op = "success" /\ steadyTimeout # {}) => (~last.steady /\ ~last.guard)
    /\ Cardinality(steadyTimeout) <= 1
    /\ countdownInProgress => steadyTimeout = {}

\* C28: a successful result applied while the status is locked leaves it locked and
\* leaves a running countdown running, whatever the status was when the call started.
C28_LockedSurvivesSuccess ==
    (mounted /\ last.op = "success" /\ last.from = "locked") =>
        /\ detectionStatus = "locked"
        /\ last.guard => countdownInProgress

\* C29: the in-flight flag is cleared when a sampling step completes, by a successful
\* result, by a result without a box or by an error, and it is never set while no
\* detection call is outstanding.
C29_InFlightCleared ==
    /\ isAnalyzing => calls # <<>>
    /\ last.op \in {"success", "noBox", "error"} => ~isAnalyzing

\* a second call, started after the first one completed, has completed as well
C29_Witness == last.op = "noBox" /\ last.from = "locked" /\ ~isAnalyzing /\ calls = <<>>

\* C30: a sampling tick that finds a call in flight changes nothing but the interval's
\* next firing time: status, zoom, countdown, steadiness and countdown timeouts, guard,
\* in-flight flag and outstanding calls stay as they were; and the completion of a call
\* starts no other call.
C30_DroppedTickIsDropped ==
    [][/\ last'.op = "dropped" =>
              /\ isAnalyzing /\ calls # <<>>
              /\ UNCHANGED <<detectionStatus, zoom, countdown, steadyTimeout, countdownTimeouts,
                             countdownInProgress, isAnalyzing, calls, log>>
              /\ analysisInterval' = {AnalysisPeriodMs}
       /\ last'.op \in {"success", "noBox"} =>
              /\ Len(calls') = Len(calls) - 1
              /\ ~isAnalyzing']_vars

\* a tick was dropped while a countdown was running
C30_Witness == last.op = "dropped" /\ isAnalyzing /\ countdownInProgress /\ countdown = CountdownSecond

\* C31: the tracking state never goes from idle directly to locked and never from
\* locked to tracking.
C31_StatusTransitions ==
    [][/\ ~(detectionStatus = "idle" /\ detectionStatus' = "locked")
       /\ ~(detectionStatus = "locked" /\ detectionStatus' = "tracking")]_vars

\* C32: while the countdown guard is set, the final countdown timeout (the capture
\* step) is pending.
C32_GuardHasFinalTimer == (mounted /\ countdownInProgress) => countdownTimeouts.t2 # {}

Tones(l) == SelectSeq(l, LAMBDA e : e[1] = "tone")

RequestA == <<"tone", ToneA, ToneADurationMs>>

RequestB == <<"tone", ToneB, ToneBDurationMs>>

\* C33: a countdown requests 440 Hz for 100 ms when it starts, 440 Hz for 100 ms at the
\* step that shows 1 and 880 Hz for 200 ms at its final step, so that a countdown that
\* runs to its final step has requested exactly these three tones in this order; once
\* a countdown has been cancelled no tone is requested until the next countdown starts.
C33_ToneSequence ==
    /\ [](/\ (mounted /\ countdownInProgress) =>
                 Tones(log) = IF countdown = CountdownFirst THEN <<RequestA>>
                              ELSE <<RequestA, RequestA>>
          /\ last.op = "t2" => Tones(log) = <<RequestA, RequestA, RequestB>>)
    /\ [][(cancelledBy # "none" /\ ~countdownInProgress /\ ~countdownInProgress') =>
              Tones(log') = Tones(log)]_vars

\* a countdown ran to its capture with an audio context, and every request was played
C33_Witness ==
    /\ Captured /\ last.op = "t2" /\ last.guard /\ audioContext
    /\ Tones(log) = <<RequestA, RequestA, RequestB>>
    /\ Len(Beeps(log)) = 3

Longer(a, b) == IF a >= b THEN a ELSE b

\* C34: whatever the size of the video, landscape or portrait, the longer edge of the
\* frame sampled for analysis is at most 640 px.
C34_FrameLongerEdge == last.op = "frame" => Longer(last.width, last.height) <= CanvasWidth

\* C35: findEyeInFrame never rejects; a rejected remote call and an answer that cannot
\* be parsed give a result with success false; a result with success true carries a box.
C35_DetectionNeverRejects ==
    last.op = "answered" =>
        /\ last.result.settled = "fulfilled"
        /\ last.answer.kind # "object" => ~last.result.success
        /\ last.result.success =>
               /\ "box" \in DOMAIN last.result
               /\ last.result.box \in Boxes

\* the remote call rejected
C35_Witness ==
    /\ last.op = "answered" /\ last.answer.kind = "rejects"
    /\ last.result = Failure("AI analysis failed.")

\* C36: the credit count is never negative; an export with credits left takes exactly
\* one credit, puts exactly one item at the head of the history and shows the export
\* screen; an export with no credit left changes neither credits nor history and
\* shows the store.
C36_CreditsNeverNegative ==
    /\ [](last.credits >= 0)
    /\ [][last'.op = "handleExport" =>
              IF last.credits > 0
              THEN /\ last'.credits = last.credits - 1
                   /\ Len(last'.history) = Len(last.history) + 1
                   /\ Tail(last'.history) = last.history
                   /\ last'.screen = "EXPORT"
              ELSE /\ last'.credits = last.credits
                   /\ last'.history = last.history
                   /\ last'.screen = "STORE"]_vars

\* the last credit was spent, and the next export was sent to the store
C36_Witness ==
    /\ last.op = "handleExport" /\ last.screen = "STORE"
    /\ last.credits = 0 /\ Len(last.history) = InitialCredits

\* C37: in the edit screen historyIndex is always an index of history, and at most
\* one effect application is in flight.
C37_HistoryIndexValid ==
    /\ 0 <= last.historyIndex
    /\ last.historyIndex < Len(last.history)
    /\ Len(last.flights) <= 1

\* a redo to the end of the history while an effect, started from the base image, was
\* being applied
C37_Witness ==
    /\ last.op = "redo" /\ last.isApplyingEffect /\ Len(last.flights) = 1
    /\ last.flights[1].historyIndex = 0
    /\ last.historyIndex = MaxEdits - 1 /\ Len(last.history) = MaxEdits

====
